---- MODULE Spec2Model ----
(***************************************************************************)
(* docs/conf.py of Matbe34/lankir: the configuration module the Sphinx     *)
(* documentation builder executes at the start of a build.                 *)
(*                                                                         *)
(* The module is a sequence of 23 assignments of literals followed by one  *)
(* function definition, setup(app).  A build executes the statements in    *)
(* file order into a fresh module namespace (globals), the builder reads   *)
(* the option values out of that namespace, activates the extensions and   *)
(* calls setup(app) on the build's app object.                             *)
(*                                                                         *)
(* Representation of Python values:                                        *)
(*   str            a TLA+ string; a str that the configuration uses as a  *)
(*                  path is the sequence of its '/'-separated components,  *)
(*                  '_static/logo.png' = <<"_static", "logo.png">>         *)
(*   list, tuple    a sequence                                             *)
(*   dict           a function from its keys                               *)
(*   True, False    TRUE, FALSE                                            *)
(*   None           the record None                                        *)
(***************************************************************************)
EXTENDS Integers, Sequences, FiniteSets, TLC

VARIABLES
    pc,         \* position of the current build
    ip,         \* index in File of the next statement to execute
    globals,    \* the namespace of the conf.py module being executed
    app,        \* the app object of the current build
    calls,      \* number of setup(app) invocations on the current app
    installed,  \* extension modules importable in the current build
    error,      \* where the current build's error was raised, or "none"
    runs,       \* one record per ended run of the builder
    loads       \* the option values of every completed load of the file

vars == <<pc, ip, globals, app, calls, installed, error, runs, loads>>

\* ---- bounds ------------------------------------------------------------
MaxRuns == 2
MaxLoads == 3
MaxCalls == 3

\* ---- helpers -----------------------------------------------------------
Range(s) == {s[i] : i \in DOMAIN s}

IsPrefix(p, s) == Len(p) <= Len(s) /\ \A i \in 1..Len(p) : p[i] = s[i]

None == [py |-> "None"]

\* ---- the literals of conf.py -------------------------------------------
project == "Lankir"

copyright == "2025, Lankir Contributors"

author == "Lankir Contributors"

version == "0.1"

release_stale == IF Len(loads) > 0 THEN "0.1.2" ELSE "0.1.1"

release == "0.1.1"

extensions_no_myst ==
    << "sphinx.ext.autodoc", "sphinx.ext.viewcode", "sphinx.ext.napoleon",
       "sphinx.ext.intersphinx", "sphinx_copybutton", "sphinx_design" >>

extensions ==
    << "sphinx.ext.autodoc", "sphinx.ext.viewcode", "sphinx.ext.napoleon",
       "sphinx.ext.intersphinx", "sphinx_copybutton", "sphinx_design",
       "myst_parser" >>

templates_path == << <<"_templates">> >>

exclude_patterns_static ==
    << <<"_build">>, <<"Thumbs.db">>, <<".DS_Store">>, <<"README.md">>,
       <<"_static">> >>

exclude_patterns ==
    << <<"_build">>, <<"Thumbs.db">>, <<".DS_Store">>, <<"README.md">> >>

html_theme == "sphinx_rtd_theme"

html_static_path == << <<"_static">> >>

html_logo == <<"_static", "logo.png">>

html_favicon == <<"_static", "favicon.ico">>

html_title == "Lankir Documentation"

html_theme_options ==
    [ logo_only |-> FALSE,
      display_version |-> TRUE,
      prev_next_buttons_location |-> "bottom",
      style_external_links |-> TRUE,
      collapse_navigation |-> FALSE,
      sticky_navigation |-> TRUE,
      navigation_depth |-> 4,
      includehidden |-> TRUE,
      titles_only |-> FALSE ]

html_context ==
    [ display_github |-> TRUE,
      github_user |-> "Matbe34",
      github_repo |-> "lankir",
      github_version |-> "main",
      conf_py_path |-> "/docs/" ]

myst_enable_extensions ==
    << "colon_fence", "deflist", "tasklist", "fieldlist", "attrs_inline",
       "attrs_block" >>

myst_heading_anchors == 3

intersphinx_mapping == [ python |-> << "https://docs.python.org/3", None >> ]

source_suffix == (".rst" :> "restructuredtext") @@ (".md" :> "markdown")

pygments_style == "monokai"

pygments_dark_style == "monokai"

copybutton_prompt_text == ">>> |\\.\\.\\. |\\$ |> "

copybutton_prompt_is_regexp == TRUE

custom_css == <<"custom.css">>

\* ---- the statements of conf.py, in file order ---------------------------
\* section is the "# -- ... ---" header the statement stands under.
Assign(l, sec, n, v) ==
    [line |-> l, kind |-> "assign", section |-> sec, name |-> n, value |-> v]

Def(l, sec, n) ==
    [line |-> l, kind |-> "def", section |-> sec, name |-> n,
     value |-> [function |-> n, line |-> l]]

File_reassigns ==
    << Assign(5, "Project information", "project", project),
       Assign(6, "Project information", "copyright", copyright),
       Assign(7, "Project information", "author", author),
       Assign(8, "Project information", "version", version),
       Assign(9, "Project information", "release", release),
       Assign(12, "General configuration", "extensions", extensions),
       Assign(22, "General configuration", "templates_path", templates_path),
       Assign(23, "General configuration", "exclude_patterns", exclude_patterns),
       Assign(26, "Options for HTML output", "html_theme", html_theme),
       Assign(27, "Options for HTML output", "html_static_path", html_static_path),
       Assign(28, "Options for HTML output", "html_logo", html_logo),
       Assign(29, "Options for HTML output", "html_favicon", html_favicon),
       Assign(30, "Options for HTML output", "html_title", html_title),
       Assign(32, "Options for HTML output", "html_theme_options", html_theme_options),
       Assign(44, "Options for HTML output", "html_context", html_context),
       Assign(53, "MyST Parser configuration", "myst_enable_extensions", myst_enable_extensions),
       Assign(61, "MyST Parser configuration", "myst_heading_anchors", myst_heading_anchors),
       Assign(64, "Intersphinx configuration", "intersphinx_mapping", intersphinx_mapping),
       Assign(69, "Source file configuration", "source_suffix", source_suffix),
       Assign(75, "Pygments syntax highlighting", "pygments_style", pygments_style),
       Assign(76, "Pygments syntax highlighting", "pygments_dark_style", pygments_dark_style),
       Assign(79, "Copy button configuration", "copybutton_prompt_text", copybutton_prompt_text),
       Assign(80, "Copy button configuration", "copybutton_prompt_is_regexp", copybutton_prompt_is_regexp),
       Assign(80, "Copy button configuration", "version", release),
       Def(83, "Custom CSS", "setup") >>

File ==
    << Assign(5, "Project information", "project", project),
       Assign(6, "Project information", "copyright", copyright),
       Assign(7, "Project information", "author", author),
       Assign(8, "Project information", "version", version),
       Assign(9, "Project information", "release", release),
       Assign(12, "General configuration", "extensions", extensions),
       Assign(22, "General configuration", "templates_path", templates_path),
       Assign(23, "General configuration", "exclude_patterns", exclude_patterns),
       Assign(26, "Options for HTML output", "html_theme", html_theme),
       Assign(27, "Options for HTML output", "html_static_path", html_static_path),
       Assign(28, "Options for HTML output", "html_logo", html_logo),
       Assign(29, "Options for HTML output", "html_favicon", html_favicon),
       Assign(30, "Options for HTML output", "html_title", html_title),
       Assign(32, "Options for HTML output", "html_theme_options", html_theme_options),
       Assign(44, "Options for HTML output", "html_context", html_context),
       Assign(53, "MyST Parser configuration", "myst_enable_extensions", myst_enable_extensions),
       Assign(61, "MyST Parser configuration", "myst_heading_anchors", myst_heading_anchors),
       Assign(64, "Intersphinx configuration", "intersphinx_mapping", intersphinx_mapping),
       Assign(69, "Source file configuration", "source_suffix", source_suffix),
       Assign(75, "Pygments syntax highlighting", "pygments_style", pygments_style),
       Assign(76, "Pygments syntax highlighting", "pygments_dark_style", pygments_dark_style),
       Assign(79, "Copy button configuration", "copybutton_prompt_text", copybutton_prompt_text),
       Assign(80, "Copy button configuration", "copybutton_prompt_is_regexp", copybutton_prompt_is_regexp),
       Def(83, "Custom CSS", "setup") >>

\* ---- executing a statement ----------------------------------------------
EmptyNamespace == [n \in {} |-> None]

\* name = value, and def name(...): both bind the name in the namespace.
Exec(stmt, g) ==
    [n \in DOMAIN g \cup {stmt.name} |-> IF n = stmt.name THEN stmt.value ELSE g[n]]

\* The option values of a namespace: every binding but the hook itself.
Options(g) == [n \in DOMAIN g \ {"setup"} |-> g[n]]

\* ---- the app object ------------------------------------------------------
\* The app records what is registered on it.  methods are the registration
\* methods it offers; calling any other attribute raises in the caller.
AppMethods == {"add_css_file", "add_js_file", "setup_extension", "add_config_value", "connect"}

NewApp ==
    [ methods |-> AppMethods,
      config |-> EmptyNamespace,
      extensions |-> <<>>,
      css_files |-> <<>>,
      js_files |-> <<>>,
      config_values |-> <<>>,
      listeners |-> <<>> ]

Registered(a, method, arg) ==
    CASE method = "add_css_file" -> [a EXCEPT !.css_files = Append(@, arg)]
      [] method = "add_js_file" -> [a EXCEPT !.js_files = Append(@, arg)]
      [] method = "setup_extension" -> [a EXCEPT !.extensions = Append(@, arg)]
      [] method = "add_config_value" -> [a EXCEPT !.config_values = Append(@, arg)]
      [] method = "connect" -> [a EXCEPT !.listeners = Append(@, arg)]

\* a.method(arg): the outcome of an attribute call on the app.
CallMethod(a, method, arg) ==
    IF method \in a.methods
    THEN [app |-> Registered(a, method, arg), raised |-> FALSE]
    ELSE [app |-> a, raised |-> TRUE]

\* ---- def setup(app): app.add_css_file('custom.css') ----------------------
\* The hook runs with the app it is given and the module's globals in scope.
setup_twice(a, g) ==
    LET r == CallMethod(a, "add_css_file", custom_css)
        s == CallMethod(r.app, "add_css_file", custom_css)
    IN  [app |-> s.app, globals |-> g, raised |-> r.raised \/ s.raised]

setup_old_api(a, g) ==
    LET r == CallMethod(a, "add_stylesheet", custom_css)
    IN  [app |-> r.app, globals |-> g, raised |-> r.raised]

setup_and_extension(a, g) ==
    LET r == CallMethod(a, "add_css_file", custom_css)
        s == CallMethod(r.app, "setup_extension", "sphinx.ext.todo")
    IN  [app |-> s.app, globals |-> g, raised |-> r.raised \/ s.raised]

setup(a, g) ==
    LET r == CallMethod(a, "add_css_file", custom_css)
    IN  [app |-> r.app, globals |-> g, raised |-> r.raised]

\* ---- the build -----------------------------------------------------------
\* What the builder can import in a build: everything conf.py lists, or
\* everything but one of the third-party packages.
Installations ==
    { Range(extensions),
      Range(extensions) \ {"sphinx_design"},
      Range(extensions) \ {"myst_parser"} }

Init ==
    /\ pc = "idle"
    /\ ip = 1
    /\ globals = EmptyNamespace
    /\ app = NewApp
    /\ calls = 0
    /\ installed = Range(extensions)
    /\ error = "none"
    /\ runs = <<>>
    /\ loads = <<>>

\* The builder starts a run: a new app, a fresh namespace for conf.py.
BeginBuild ==
    /\ pc = "idle"
    /\ Len(runs) < MaxRuns
    /\ Len(loads) < MaxLoads
    /\ \E inst \in Installations : installed' = inst
    /\ pc' = "load"
    /\ ip' = 1
    /\ globals' = EmptyNamespace
    /\ app' = NewApp
    /\ calls' = 0
    /\ error' = "none"
    /\ UNCHANGED <<runs, loads>>

\* One statement of conf.py executes; after the last one the load is done.
ExecStmt ==
    /\ pc = "load"
    /\ ip <= Len(File)
    /\ globals' = Exec(File[ip], globals)
    /\ ip' = ip + 1
    /\ IF ip = Len(File)
       THEN /\ pc' = "loaded"
            /\ loads' = Append(loads, Options(globals'))
       ELSE /\ pc' = "load"
            /\ loads' = loads
    /\ UNCHANGED <<app, calls, installed, error, runs>>

\* The builder reads the option values out of the module namespace.
ReadConfig ==
    /\ pc = "loaded"
    /\ app' = [app EXCEPT !.config = Options(globals)]
    /\ pc' = "configured"
    /\ UNCHANGED <<ip, globals, calls, installed, error, runs, loads>>

\* The builder activates the listed extensions ...
LoadExtensions ==
    /\ pc = "configured"
    /\ Range(app.config["extensions"]) \subseteq installed
    /\ app' = [app EXCEPT !.extensions = @ \o app.config["extensions"]]
    /\ pc' = "ready"
    /\ UNCHANGED <<ip, globals, calls, installed, error, runs, loads>>

\* ... or reports the one it cannot import, and start-up fails.
ExtensionError ==
    /\ pc = "configured"
    /\ ~(Range(app.config["extensions"]) \subseteq installed)
    /\ error' = "tool"
    /\ pc' = "failed"
    /\ UNCHANGED <<ip, globals, app, calls, installed, runs, loads>>

\* The builder calls the module's setup(app).
CallSetup ==
    /\ pc = "ready"
    /\ "setup" \in DOMAIN globals
    /\ calls < MaxCalls
    /\ LET r == setup(app, globals)
       IN  /\ app' = r.app
           /\ globals' = r.globals
           /\ IF r.raised
              THEN error' = "conf" /\ pc' = "failed"
              ELSE error' = error /\ pc' = "setup_done"
    /\ calls' = calls + 1
    /\ UNCHANGED <<ip, installed, runs, loads>>

\* Start-up is over and the site is built; what the run registered is kept.
EndBuild ==
    /\ pc = "setup_done"
    /\ runs' = Append(runs, [outcome |-> "built",
                             error |-> error,
                             calls |-> calls,
                             css_files |-> app.css_files])
    /\ pc' = "idle"
    /\ UNCHANGED <<ip, globals, app, calls, installed, error, loads>>

\* An error during start-up ends the run before anything is built.
Abort ==
    /\ pc = "failed"
    /\ runs' = Append(runs, [outcome |-> "aborted",
                             error |-> error,
                             calls |-> calls,
                             css_files |-> app.css_files])
    /\ pc' = "idle"
    /\ UNCHANGED <<ip, globals, app, calls, installed, error, loads>>

Next ==
    \/ BeginBuild
    \/ ExecStmt
    \/ ReadConfig
    \/ LoadExtensions
    \/ ExtensionError
    \/ CallSetup
    \/ EndBuild
    \/ Abort

Spec == Init /\ [][Next]_vars

\* ---- a harness that loads and calls more often than a build does ---------
\* conf.py is executed again, into a fresh namespace, within the same build.
Reload ==
    /\ pc \in {"loaded", "configured", "ready", "setup_done"}
    /\ Len(loads) < MaxLoads
    /\ pc' = "load"
    /\ ip' = 1
    /\ globals' = EmptyNamespace
    /\ UNCHANGED <<app, calls, installed, error, runs, loads>>

\* setup(app) is called once more on the same app.
SetupAgain ==
    /\ pc = "setup_done"
    /\ calls < MaxCalls
    /\ LET r == setup(app, globals)
       IN  /\ app' = r.app
           /\ globals' = r.globals
           /\ IF r.raised
              THEN error' = "conf" /\ pc' = "failed"
              ELSE error' = error /\ pc' = "setup_done"
    /\ calls' = calls + 1
    /\ UNCHANGED <<ip, installed, runs, loads>>

NextHarness ==
    \/ BeginBuild
    \/ ExecStmt
    \/ ReadConfig
    \/ LoadExtensions
    \/ ExtensionError
    \/ CallSetup
    \/ EndBuild
    \/ Abort
    \/ Reload
    \/ SetupAgain

SpecHarness == Init /\ [][NextHarness]_vars

\* ---- properties -----------------------------------------------------------

Started == pc \in {"load", "loaded", "configured", "ready", "setup_done", "failed"}

C2_LoadIdempotent ==
    /\ \A i, j \in DOMAIN loads : loads[i] = loads[j]
    /\ \A i \in DOMAIN loads :
         DOMAIN loads[i] = {File[k].name : k \in DOMAIN File} \ {"setup"}

C2_Witness ==
    /\ Len(loads) = 3
    /\ Len(runs) = 1
    /\ calls = 1
    /\ pc = "loaded"

\* The parts of the property of C3.
C3_NoNameAssignedTwice ==
    \A i, j \in DOMAIN File : File[i].name = File[j].name => i = j

C3_ConfigAsLoaded ==
    pc \in {"configured", "ready", "setup_done", "failed"} =>
        /\ app.config = loads[Len(loads)]
        /\ Options(globals) = loads[Len(loads)]

C3_Preserved ==
    \A n \in DOMAIN globals : n \in DOMAIN globals' /\ globals'[n] = globals[n]

\* C3: no name is assigned more than once in the file, and from the moment an
\* option is bound until the next run starts no step -- a later statement, the
\* builder reading the values, setup(app) -- changes its value; what the
\* builder has read stays equal to what the load produced.
C3_NeverMutated ==
    /\ [](C3_NoNameAssignedTwice /\ C3_ConfigAsLoaded)
    /\ [][pc # "idle" => C3_Preserved]_vars

C3_Witness ==
    /\ pc = "setup_done"
    /\ calls = 1
    /\ Options(globals) = loads[Len(loads)]
    /\ DOMAIN globals = {File[k].name : k \in DOMAIN File}

\* The parts of the property of C4.
C4_NoErrorFromConf ==
    /\ error \in {"none", "tool"}
    /\ pc = "failed" => error = "tool"
    /\ pc \in {"loaded", "setup_done"} => error = "none"
    /\ \A i \in DOMAIN runs :
         /\ runs[i].error \in {"none", "tool"}
         /\ runs[i].outcome = "aborted" => runs[i].error = "tool"
         /\ runs[i].outcome = "built" => runs[i].error = "none"

C4_NoRecovery ==
    pc = "failed" =>
        /\ pc' \in {"failed", "idle"}
        /\ error' = error
        /\ globals' = globals
        /\ app' = app

\* C4: no run ever carries an error raised in conf.py: executing the file and
\* calling setup(app) end without error, every aborted run was aborted by the
\* builder, and once a run has failed nothing of conf.py runs any more.
C4_NoErrorOriginatesHere == []C4_NoErrorFromConf /\ [][C4_NoRecovery]_vars

C4_Witness ==
    /\ Len(runs) = 2
    /\ runs[1].outcome = "aborted" /\ runs[1].error = "tool"
    /\ runs[2].outcome = "built" /\ runs[2].calls = 1

\* The dialect a source_suffix value names, and what provides its parser.
DialectProvider == ("restructuredtext" :> "builtin") @@ ("markdown" :> "myst_parser")

\* The extension that owns the options of a section of the file.
SectionOwner ==
    ("MyST Parser configuration" :> "myst_parser")
    @@ ("Intersphinx configuration" :> "sphinx.ext.intersphinx")
    @@ ("Copy button configuration" :> "sphinx_copybutton")

Listed(g, ext) == "extensions" \in DOMAIN g /\ ext \in Range(g["extensions"])

\* C7: whenever source_suffix is bound, each dialect it names is built in or
\* provided by an extension listed in `extensions`; whenever an option of the
\* MyST, intersphinx or copy-button section is bound, its owning extension is
\* listed in `extensions`; and once the builder has activated the extensions
\* all of these are active on the app.
C7_ProvidersListed ==
    /\ "source_suffix" \in DOMAIN globals =>
         \A k \in DOMAIN globals["source_suffix"] :
            LET d == globals["source_suffix"][k]
            IN  /\ d \in DOMAIN DialectProvider
                /\ \/ DialectProvider[d] = "builtin"
                   \/ Listed(globals, DialectProvider[d])
    /\ \A k \in DOMAIN File :
         (File[k].name \in DOMAIN globals /\ File[k].section \in DOMAIN SectionOwner)
            => Listed(globals, SectionOwner[File[k].section])
    /\ pc \in {"ready", "setup_done"} =>
         /\ {SectionOwner[s] : s \in DOMAIN SectionOwner} \subseteq Range(app.extensions)
         /\ "myst_parser" \in Range(app.extensions)

C7_Witness ==
    /\ pc = "setup_done"
    /\ DOMAIN globals["source_suffix"] = {".rst", ".md"}
    /\ {"myst_heading_anchors", "intersphinx_mapping", "copybutton_prompt_text"}
          \subseteq DOMAIN globals
    /\ "myst_parser" \in Range(app.extensions)

\* The patterns of exclude_patterns hold no wildcard, so a pattern hides a
\* path when its components are the path's or lead to it.
Excluded(g, path) ==
    "exclude_patterns" \in DOMAIN g
        /\ \E pat \in Range(g["exclude_patterns"]) : IsPrefix(pat, path)

UnderStatic(g, path) ==
    "html_static_path" \in DOMAIN g
        /\ \E d \in Range(g["html_static_path"]) : IsPrefix(d, path) /\ Len(d) < Len(path)

\* C8: whenever html_logo or html_favicon is bound it lies under a directory
\* of html_static_path; every stylesheet setup registered is a bare file name
\* and html_static_path names a directory to resolve it in; and no entry of
\* templates_path or html_static_path, nor html_logo or html_favicon, is
\* hidden by an entry of exclude_patterns.
C8_AssetsReachable ==
    /\ \A n \in {"html_logo", "html_favicon"} :
         n \in DOMAIN globals =>
            UnderStatic(globals, globals[n]) /\ ~Excluded(globals, globals[n])
    /\ \A n \in {"templates_path", "html_static_path"} :
         n \in DOMAIN globals =>
            \A d \in Range(globals[n]) : ~Excluded(globals, d)
    /\ \A f \in Range(app.css_files) :
         /\ Len(f) = 1
         /\ "html_static_path" \in DOMAIN globals
         /\ globals["html_static_path"] # <<>>

C8_Witness ==
    /\ pc = "setup_done"
    /\ app.css_files = << custom_css >>
    /\ {"templates_path", "exclude_patterns", "html_static_path", "html_logo",
        "html_favicon"} \subseteq DOMAIN globals

\* The parts of the property of C9.
C9_HookStep ==
    calls' = calls + 1 =>
        /\ app' = [app EXCEPT !.css_files = Append(@, custom_css)]
        /\ globals' = globals

C9_HookState ==
    Started =>
        /\ Len(app.css_files) = calls
        /\ \A i \in 1..calls : app.css_files[i] = custom_css
        /\ app.js_files = <<>>
        /\ app.config_values = <<>>
        /\ app.listeners = <<>>
        /\ Range(app.extensions) \subseteq Range(extensions)

\* C9: a call of setup(app) appends 'custom.css' to the app's stylesheets and
\* changes nothing else of the app nor of the module; so after n calls on the
\* same app its stylesheets are n times 'custom.css', and no script, config
\* value or listener and no extension beyond the listed ones is registered.
C9_SetupOnlyAddsCss == []C9_HookState /\ [][C9_HookStep]_vars

C9_Witness ==
    /\ pc = "setup_done"
    /\ calls = 3
    /\ app.css_files = << custom_css, custom_css, custom_css >>

====
